---- MODULE Spec2Model ----
(***************************************************************************)
(* Model of the rule-based code review engine of AutoPR-Summarize-Code     *)
(* (backend/src/core/code_reviewer.py) together with the collaborator it   *)
(* consumes (backend/src/utils/github_service.py).                         *)
(*                                                                         *)
(* Text is modelled structurally.  A filename is a record                  *)
(*    [dir |-> <<directory components>>, parts |-> <<dot separated parts   *)
(*     of the basename>>]                                                  *)
(* so "src/main.js" is [dir |-> <<"src">>, parts |-> <<"main", "js">>].    *)
(* A file content is a sequence of text fragments; each fragment stands    *)
(* for a fixed piece of source text (FragmentText below) and the content   *)
(* is their concatenation.  The regular expressions of the source are      *)
(* modelled by what they match on these fragments (Matches); the table was *)
(* compared with the patterns of the source on every content of up to      *)
(* three fragments.                                                        *)
(***************************************************************************)
EXTENDS Integers, Sequences, FiniteSets, TLC

VARIABLES
    pc,             \* position of review_code: start, loop, get_pull_request,
                    \* get_file_content, done, failed
    pr,             \* collaborator: the file list of the pull request
    repo,           \* collaborator: outcome of get_contents per filename, as observed so far
    caller_config,  \* the config argument of review_code (a dict: function from keys)
    config,         \* the local effective config of review_code
    pr_files,       \* local: the list returned by get_pr_files
    idx,            \* local: position of the for loop in pr_files (1-based)
    results,        \* local: the results dict under construction
    applied,        \* per input file, the pattern dicts the analyzers built for it (<<>> if not scanned)
    fetchLog,       \* filenames for which get_file_content was called, in call order
    returned,       \* the value review_code returned (NoResult while running or after a raise)
    review,         \* number of the review_code call in progress (1-based)
    first,          \* what the previous call was given and what it returned
    cancel_at,      \* <<>>, or <<n>> once the caller abandoned the call during its n-th content fetch
    head,           \* collaborator: the commit the pull request's head ref points to
    refLog,         \* per get_file_content call, the commit its content was read at
    request_records,\* RateLimiter.request_records: client ip -> list of timestamps
    current_time,   \* the clock time.time() reads
    forwarded,      \* per client ip, the times of its requests RateLimiter passed to call_next
    exchange,       \* <<>>, or the last HTTP request with the response it got
    filename_arg,   \* the filename a caller passes to _detect_language
    classification  \* <<>>, or <<pair>>: the pair _detect_language returned for filename_arg

\* The state of the middleware stack.
mw_vars == <<request_records, current_time, forwarded, exchange>>

\* The argument and the result of a direct call of _detect_language.
detect_vars == <<filename_arg, classification>>

\* The state of the collaborator's head.
head_vars == <<head, refLog>>

vars == <<pc, pr, repo, caller_config, config, pr_files, idx, results, applied,
          fetchLog, returned, review, first, cancel_at, head, refLog,
          request_records, current_time, forwarded, exchange,
          filename_arg, classification>>

\* The state of a call of review_code and of its collaborator.
review_vars == <<pc, pr, repo, caller_config, config, pr_files, idx, results, applied,
                 fetchLog, returned, review, first, cancel_at, head, refLog>>

(***************************************************************************)
(* Bounds of the model.                                                    *)
(***************************************************************************)
MaxFiles == 2          \* files in a pull request
MaxContentLen == 2     \* fragments in a file content of the scanning specification
MaxReviews == 2        \* consecutive calls of review_code against one collaborator

(***************************************************************************)
(* Filenames.                                                              *)
(***************************************************************************)
FN(d, p) == [dir |-> d, parts |-> p]

AppPy == FN(<<>>, <<"app", "py">>)
MainJs == FN(<<"src">>, <<"main", "js">>)
GuideMd == FN(<<"docs">>, <<"guide", "md">>)
BundleJs == FN(<<"dist">>, <<"bundle", "js">>)
TestAppPy == FN(<<>>, <<"test_app", "py">>)

FileNames == {AppPy, MainJs, GuideMd, BundleJs, TestAppPy}

\* The paths of the pull requests of specification Spec.
ReviewNames == {AppPy, MainJs, GuideMd, BundleJs}

Last(s) == s[Len(s)]

(***************************************************************************)
(* re.search(pattern, filename) for the shapes of pattern the skip list    *)
(* uses.  A pattern is a record:                                           *)
(*   [kind |-> "ext", exts |-> S]       \.(e1|e2|...)$                     *)
(*   [kind |-> "dir", name |-> d]       ^d/                                *)
(*   [kind |-> "tail", parts |-> t]     t1\.t2$  (basename ends with it)   *)
(*   [kind |-> "minext", exts |-> S]    \.min\.(e1|e2)$                    *)
(* A "tail" pattern is compared with whole dot separated parts: on the     *)
(* filenames of the model no part merely ends with the first part of a     *)
(* tail.                                                                   *)
(***************************************************************************)
re_search(pattern, filename) ==
    LET p == filename.parts
        n == Len(p)
    IN CASE pattern.kind = "ext" -> n >= 2 /\ p[n] \in pattern.exts
         [] pattern.kind = "dir" -> Len(filename.dir) >= 1 /\ filename.dir[1] = pattern.name
         [] pattern.kind = "tail" ->
                LET t == pattern.parts
                IN n >= Len(t) /\ \A k \in 1..Len(t) : p[n - Len(t) + k] = t[k]
         [] pattern.kind = "minext" -> n >= 3 /\ p[n - 1] = "min" /\ p[n] \in pattern.exts
         [] OTHER -> FALSE

\* The built-in list of _should_skip_file, in source order.
skip_patterns ==
    << [kind |-> "ext", exts |-> {"png", "jpg", "jpeg", "gif", "svg", "ico", "ttf", "woff",
                                  "woff2", "eot", "pdf", "zip", "tar", "gz", "rar"}],
       [kind |-> "dir", name |-> "dist"],
       [kind |-> "dir", name |-> "build"],
       [kind |-> "dir", name |-> "node_modules"],
       [kind |-> "dir", name |-> "vendor"],
       [kind |-> "dir", name |-> ".git"],
       [kind |-> "tail", parts |-> <<"package-lock", "json">>],
       [kind |-> "tail", parts |-> <<"yarn", "lock">>],
       [kind |-> "dir", name |-> "__pycache__"],
       [kind |-> "minext", exts |-> {"js", "css"}] >>

\* Mutant: custom patterns replace the built-in list.
EffectiveSkipPatterns_Replace(cfg) ==
    IF "skip_patterns" \in DOMAIN cfg THEN cfg["skip_patterns"] ELSE skip_patterns

\* The list searched: the built-in list extended by config["skip_patterns"] when the key is present.
\* Mutant: the built-in list is a shared object that extend() grows, the
\* custom patterns of the previous call are still in it.
EffectiveSkipPatterns_Leaky(cfg) ==
    skip_patterns
        \o (IF first # <<>> /\ "skip_patterns" \in DOMAIN first[1].config
            THEN first[1].config["skip_patterns"] ELSE <<>>)
        \o (IF "skip_patterns" \in DOMAIN cfg THEN cfg["skip_patterns"] ELSE <<>>)

EffectiveSkipPatterns(cfg) ==
    IF "skip_patterns" \in DOMAIN cfg THEN skip_patterns \o cfg["skip_patterns"]
    ELSE skip_patterns

\* A pattern re.compile rejects ([kind |-> "malformed"]): re.search raises re.error.
IsMalformed(pattern) == pattern.kind = "malformed"

\* TRUE when a pattern matches before the loop over the patterns reaches a
\* malformed one.
_should_skip_file(filename, cfg) ==
    LET patterns == EffectiveSkipPatterns(cfg)
    IN \E k \in 1..Len(patterns) :
          /\ re_search(patterns[k], filename)
          /\ \A j \in 1..(k - 1) : ~IsMalformed(patterns[j])

\* _should_skip_file raises re.error: the loop over the patterns reaches a
\* malformed pattern, no pattern before it having matched.
SkipRaises(filename, cfg) ==
    LET patterns == EffectiveSkipPatterns(cfg)
    IN \E k \in 1..Len(patterns) :
          /\ IsMalformed(patterns[k])
          /\ \A j \in 1..(k - 1) : ~re_search(patterns[j], filename)

(***************************************************************************)
(* _detect_language: exact filename, then os.path.splitext extension.      *)
(***************************************************************************)
extensions ==
    [ js |-> <<"javascript", "source">>, jsx |-> <<"javascript", "react">>,
      ts |-> <<"typescript", "source">>, tsx |-> <<"typescript", "react">>,
      py |-> <<"python", "source">>, go |-> <<"go", "source">>,
      java |-> <<"java", "source">>, kt |-> <<"kotlin", "source">>,
      rb |-> <<"ruby", "source">>, php |-> <<"php", "source">>,
      c |-> <<"c", "source">>, cpp |-> <<"cpp", "source">>,
      h |-> <<"c", "header">>, hpp |-> <<"cpp", "header">>,
      cs |-> <<"csharp", "source">>, html |-> <<"html", "markup">>,
      xml |-> <<"xml", "markup">>, json |-> <<"json", "data">>,
      yaml |-> <<"yaml", "data">>, yml |-> <<"yaml", "data">>,
      md |-> <<"markdown", "documentation">>, css |-> <<"css", "style">>,
      scss |-> <<"scss", "style">>, less |-> <<"less", "style">>,
      sh |-> <<"shell", "script">>, bat |-> <<"batch", "script">>,
      ps1 |-> <<"powershell", "script">>, sql |-> <<"sql", "database">>,
      dockerfile |-> <<"dockerfile", "config">>, gitignore |-> <<"gitignore", "config">>,
      env |-> <<"env", "config">>, toml |-> <<"toml", "config">>,
      ini |-> <<"ini", "config">> ]

\* Mutant: the directory is ignored, the basename is looked up.
ExactName_Basename(filename) ==
    IF filename.parts = <<"Dockerfile">> THEN <<"dockerfile", "config">>
    ELSE IF Len(filename.parts) = 2 /\ filename.parts[1] = ""
            /\ filename.parts[2] \in DOMAIN extensions
         THEN extensions[filename.parts[2]]
    ELSE <<>>

\* The keys of the extensions dict that are whole filenames: "Dockerfile" and,
\* because they start with a dot, every ".ext" key.
ExactName(filename) ==
    IF filename.dir # <<>> THEN <<>>
    ELSE IF filename.parts = <<"Dockerfile">> THEN <<"dockerfile", "config">>
    ELSE IF Len(filename.parts) = 2 /\ filename.parts[1] = ""
            /\ filename.parts[2] \in DOMAIN extensions
         THEN extensions[filename.parts[2]]
    ELSE <<>>

\* os.path.splitext: the text after the last dot of the basename, unless that
\* dot is one of the leading dots of the basename.  "" when there is none.
splitext(filename) ==
    LET p == filename.parts
        n == Len(p)
    IN IF n >= 2 /\ (\E k \in 1..(n - 1) : p[k] # "") THEN <<p[n]>> ELSE <<>>

_detect_language(filename) ==
    IF ExactName(filename) # <<>> THEN ExactName(filename)
    ELSE IF splitext(filename) # <<>> /\ splitext(filename)[1] \in DOMAIN extensions
         THEN extensions[splitext(filename)[1]]
    ELSE <<"unknown", "unknown">>

(***************************************************************************)
(* File contents.                                                          *)
(* FragmentText (documentation of the fragments):                          *)
(*   "nl"         one newline character                                    *)
(*   "plain"      x = 1;                                                   *)
(*   "secret"     password = "abc123";                                     *)
(*   "dotdot"     ../;                                                     *)
(*   "cors"       Access-Control-Allow-Origin: *;                          *)
(*   "eval"       eval(x);                                                 *)
(*   "nestedfor"  for a in b:<newline>  for c in d;<newline>;              *)
(*   "todo"       # TODO;                                                  *)
(*   "defun"      def f(x):;                                               *)
(***************************************************************************)
Fragments == {"nl", "plain", "secret", "dotdot", "cors", "eval", "nestedfor", "todo", "defun"}

\* Number of '\n' characters in a fragment.
NewlinesIn(frag) ==
    CASE frag = "nl" -> 1
      [] frag = "nestedfor" -> 2
      [] frag = "execsql" -> 1
      [] OTHER -> 0

\* Further pieces of text, for the rules with captured groups and for two
\* rules that match the same text: "execsql" is exec(sql + x) with its line
\* end, "defvariable" is def variable(x):, "pyclass" is class Foo:,
\* "exporttotal" is export const total, "exportletter" is export const letter.
GroupFragments ==
    {"nl", "execsql", "defun", "defvariable", "pyclass", "exporttotal", "exportletter"}

(***************************************************************************)
(* The pattern dicts of the analyzers.  A rule is named by a short id; a   *)
(* dict is the sequence of its keys in insertion order (the order in which *)
(* Python iterates it).  RuleInfo is the value stored under the key.       *)
(***************************************************************************)
RuleInfo(rule) ==
    CASE rule = "sql_injection" ->
            [severity |-> "critical", issue |-> "Potential SQL injection vulnerability",
             recommendation |-> "Use parameterized queries or prepared statements"]
      [] rule = "xss" ->
            [severity |-> "high", issue |-> "Potential XSS vulnerability with direct DOM manipulation",
             recommendation |-> "Use safer alternatives like textContent or createElement and sanitize user input"]
      [] rule = "hardcoded_secret" ->
            [severity |-> "critical", issue |-> "Hardcoded secret or credential in source code",
             recommendation |-> "Move sensitive values to environment variables or a secure configuration store"]
      [] rule = "path_traversal" ->
            [severity |-> "high", issue |-> "Potential path traversal vulnerability",
             recommendation |-> "Validate and sanitize file paths, use path normalization"]
      [] rule = "insecure_random" ->
            [severity |-> "medium", issue |-> "Use of non-cryptographically secure random number generator",
             recommendation |-> "Use cryptographically secure random generators for security-sensitive operations"]
      [] rule = "redos" ->
            [severity |-> "medium", issue |-> "Regular expression pattern susceptible to ReDoS attacks",
             recommendation |-> "Avoid nested quantifiers and use atomic groups or possessive quantifiers"]
      [] rule = "cors" ->
            [severity |-> "medium", issue |-> "Overly permissive CORS policy",
             recommendation |-> "Restrict CORS to specific trusted domains rather than using a wildcard"]
      [] rule = "js_eval" ->
            [severity |-> "high", issue |-> "Use of eval() can lead to code injection vulnerabilities",
             recommendation |-> "Avoid using eval(); use safer alternatives"]
      [] rule = "prototype_pollution" ->
            [severity |-> "medium", issue |-> "Potential prototype pollution vulnerability",
             recommendation |-> "Use safe object cloning or Object.create(null)"]
      [] rule = "py_exec" ->
            [severity |-> "high", issue |-> "Use of eval(), exec(), or compile() can lead to code execution vulnerabilities",
             recommendation |-> "Avoid executing dynamic code; use safer alternatives"]
      [] rule = "pickle" ->
            [severity |-> "high", issue |-> "Insecure deserialization with pickle/marshal",
             recommendation |-> "Use safer serialization formats like JSON"]
      [] rule = "nested_loops" ->
            [severity |-> "medium", issue |-> "Nested loops may lead to O(n2) time complexity",
             recommendation |-> "Consider restructuring the algorithm to avoid nested iterations"]
      [] rule = "dom_query" ->
            [severity |-> "low", issue |-> "Repeated DOM queries may cause performance issues",
             recommendation |-> "Cache DOM elements in variables if used multiple times"]
      [] rule = "array_in_loop" ->
            [severity |-> "medium", issue |-> "Modifying arrays inside loops can be inefficient",
             recommendation |-> "Consider using map, filter, or reduce for array transformations"]
      [] rule = "append_in_loop" ->
            [severity |-> "low", issue |-> "Using list.append() in a loop instead of a list comprehension",
             recommendation |-> "Use list comprehension for building lists when possible"]
      [] rule = "string_concat" ->
            [severity |-> "low", issue |-> "Inefficient string concatenation in a loop",
             recommendation |-> "Use ''.join() or string formatting for building strings"]
      [] rule = "long_function" ->
            [severity |-> "medium", issue |-> "Function is too long (over 500 characters)",
             recommendation |-> "Break down large functions into smaller, focused functions"]
      [] rule = "magic_number" ->
            [severity |-> "low", issue |-> "Magic number detected",
             recommendation |-> "Replace magic numbers with named constants for better readability"]
      [] rule = "todo" ->
            [severity |-> "low", issue |-> "TODO comment found",
             recommendation |-> "Address TODO comments before finalizing the PR"]
      [] rule = "console" ->
            [severity |-> "low", issue |-> "Console statement in production code",
             recommendation |-> "Remove or wrap console statements in development-only conditionals"]
      [] rule = "callback_hell" ->
            [severity |-> "medium", issue |-> "Nested callbacks (callback hell) detected",
             recommendation |-> "Refactor to use Promises, async/await, or named functions"]
      [] rule = "print" ->
            [severity |-> "low", issue |-> "Print statement in production code",
             recommendation |-> "Use proper logging instead of print statements"]
      [] rule = "bare_except" ->
            [severity |-> "medium", issue |-> "Bare except clause",
             recommendation |-> "Specify the exceptions to catch instead of using a bare except"]
      [] rule = "js_export" ->
            [severity |-> "medium", issue |-> "Exported module lacks corresponding test file",
             recommendation |-> "Create a test file for this module"]
      [] rule = "py_def" ->
            [severity |-> "medium", issue |-> "Function lacks docstring and possibly tests",
             recommendation |-> "Add docstring and ensure function is tested"]
      [] rule = "py_class" ->
            [severity |-> "medium", issue |-> "Class might need dedicated tests",
             recommendation |-> "Ensure this class has test coverage"]

\* re.finditer(pattern, content) restricted to the fragments: TRUE when the
\* pattern of the rule has a match that starts at the start of the fragment.
\* No pattern matches inside or across the fragments of the model.
Matches(rule, frag) ==
    \/ rule = "hardcoded_secret" /\ frag = "secret"
    \/ rule = "path_traversal" /\ frag = "dotdot"
    \/ rule = "cors" /\ frag = "cors"
    \/ rule = "js_eval" /\ frag = "eval"
    \/ rule = "py_exec" /\ frag = "eval"
    \/ rule = "nested_loops" /\ frag = "nestedfor"
    \/ rule = "todo" /\ frag = "todo"
    \/ rule = "py_def" /\ frag \in {"defun", "defvariable"}
    \/ rule = "py_class" /\ frag = "pyclass"
    \/ rule = "js_export" /\ frag \in {"exporttotal", "exportletter"}
    \/ rule = "sql_injection" /\ frag = "execsql"
    \/ rule = "py_exec" /\ frag = "execsql"

\* match.groups() of a match of the rule at the fragment.
MatchGroups(rule, frag) ==
    CASE rule = "py_def" /\ frag = "defun" -> <<"f">>
      [] rule = "py_def" /\ frag = "defvariable" -> <<"variable">>
      [] rule = "py_class" /\ frag = "pyclass" -> <<"Foo">>
      [] rule = "js_export" /\ frag = "exporttotal" -> <<"", "const ", "const", "total">>
      [] rule = "js_export" /\ frag = "exportletter" -> <<"", "const ", "const", "letter">>
      [] OTHER -> <<>>

\* The keywords kw for which "kw in group" is true: those that occur in the
\* group as a substring.
KeywordsIn(group) ==
    CASE group \in {"class", "function", "const", "let", "var", "default"} -> {group}
      [] group = "const " -> {"const"}
      [] group = "classify" -> {"class"}
      [] group = "variable" -> {"var"}
      [] group = "letter" -> {"let"}
      [] OTHER -> {}

\* any(kw in group for kw in ["class", "function", "const", "let", "var", "default"])
\* on the captured groups of the model.
ContainsKeyword(group) == KeywordsIn(group) # {}

\* A dict entry can hold a value of any type.  The model holds a
\* strictness_level that is not a number (None, a string) under the key
\* strictness_level_text; a dict with that key has no numeric strictness.
StrictnessIsNumber(cfg) == "strictness_level_text" \notin DOMAIN cfg

\* strictness = config.get("strictness_level", 3), when it is a number
Strictness(cfg) ==
    IF "strictness_level" \in DOMAIN cfg THEN cfg["strictness_level"] ELSE 3

MediumSecurityPatterns == <<"path_traversal", "insecure_random">>

HighSecurityPatterns == <<"redos", "cors">>

IsJs(language) == language = "javascript" \/ language = "typescript"

\* Mutant: the dict of a higher tier replaces the dict of the tier below.
security_patterns_TierReplaces(language, cfg) ==
    <<"sql_injection", "xss", "hardcoded_secret">>
    \o (IF Strictness(cfg) >= 4 THEN HighSecurityPatterns
        ELSE IF Strictness(cfg) >= 3 THEN MediumSecurityPatterns
        ELSE <<>>)
    \o (IF IsJs(language) THEN <<"js_eval", "prototype_pollution">>
        ELSE IF language = "python" THEN <<"py_exec", "pickle">>
        ELSE <<>>)

\* Mutant: the medium tier is switched on one level too early.
security_patterns_FromLevel2(language, cfg) ==
    <<"sql_injection", "xss", "hardcoded_secret">>
    \o (IF Strictness(cfg) >= 2 THEN MediumSecurityPatterns ELSE <<>>)
    \o (IF Strictness(cfg) >= 4 THEN HighSecurityPatterns ELSE <<>>)
    \o (IF IsJs(language) THEN <<"js_eval", "prototype_pollution">>
        ELSE IF language = "python" THEN <<"py_exec", "pickle">>
        ELSE <<>>)

security_patterns(language, cfg) ==
    <<"sql_injection", "xss", "hardcoded_secret">>
    \o (IF Strictness(cfg) >= 3 THEN MediumSecurityPatterns ELSE <<>>)
    \o (IF Strictness(cfg) >= 4 THEN HighSecurityPatterns ELSE <<>>)
    \o (IF IsJs(language) THEN <<"js_eval", "prototype_pollution">>
        ELSE IF language = "python" THEN <<"py_exec", "pickle">>
        ELSE <<>>)

performance_patterns(language, cfg) ==
    <<"nested_loops">>
    \o (IF IsJs(language) THEN <<"dom_query", "array_in_loop">>
        ELSE IF language = "python" THEN <<"append_in_loop", "string_concat">>
        ELSE <<>>)

quality_patterns(language, cfg) ==
    <<"long_function", "magic_number", "todo">>
    \o (IF IsJs(language) THEN <<"console", "callback_hell">>
        ELSE IF language = "python" THEN <<"print", "bare_except">>
        ELSE <<>>)

\* "test" in filename.lower() or "spec" in filename.lower(), on the
\* components of the model's filenames.
IsTestWord(word) == word \in {"test_app", "tests", "spec"}

IsTestFile(filename) ==
    \/ \E k \in 1..Len(filename.dir) : IsTestWord(filename.dir[k])
    \/ \E k \in 1..Len(filename.parts) : IsTestWord(filename.parts[k])

language_patterns(filename, language) ==
    IF IsTestFile(filename) THEN <<>>
    ELSE IF language = "javascript" THEN <<"js_export">>
    ELSE IF language = "python" THEN <<"py_def", "py_class">>
    ELSE <<>>

(***************************************************************************)
(* Scanning: for every pattern of the dict in iteration order, every match *)
(* in ascending start offset, one issue.                                   *)
(***************************************************************************)
RECURSIVE NewlinesBefore(_, _)
\* content[:match.start()].count('\n') for a match starting at fragment p
NewlinesBefore(content, p) ==
    IF p <= 1 THEN 0
    ELSE NewlinesBefore(content, p - 1) + NewlinesIn(content[p - 1])

\* Mutant: the line number is the newline count itself (0-based lines).
LineNumber_ZeroBased(content, p) == NewlinesBefore(content, p)

LineNumber(content, p) == NewlinesBefore(content, p) + 1

MakeIssue(filename, line_number, issue_info) ==
    [file |-> filename, line |-> line_number, severity |-> issue_info.severity,
     issue |-> <<issue_info.issue>>, recommendation |-> <<issue_info.recommendation>>]

RECURSIVE FirstIdentifier(_, _)
\* the first captured group that is non-empty and contains no keyword; <<>> for None
FirstIdentifier(groups, k) ==
    IF k > Len(groups) THEN <<>>
    ELSE IF groups[k] # "" /\ ~ContainsKeyword(groups[k]) THEN <<groups[k]>>
    ELSE FirstIdentifier(groups, k + 1)

\* The issue of _analyze_test_coverage: the texts are prefixed / suffixed by
\* the identifier when one was found.
MakeTestIssue(filename, line_number, issue_info, groups) ==
    LET identifier == FirstIdentifier(groups, 1)
    IN [file |-> filename, line |-> line_number, severity |-> issue_info.severity,
        issue |-> IF identifier # <<>> THEN <<identifier[1], ": ", issue_info.issue>>
                  ELSE <<issue_info.issue>>,
        recommendation |-> IF identifier # <<>>
                           THEN <<issue_info.recommendation, " for ", identifier[1]>>
                           ELSE <<issue_info.recommendation>>]

RECURSIVE ScanRule(_, _, _, _, _)
\* the inner loop "for match in matches" from fragment p on
ScanRule(rule, content, filename, personalize, p) ==
    IF p > Len(content) THEN <<>>
    ELSE (IF Matches(rule, content[p])
          THEN << IF personalize
                  THEN MakeTestIssue(filename, LineNumber(content, p), RuleInfo(rule),
                                     MatchGroups(rule, content[p]))
                  ELSE MakeIssue(filename, LineNumber(content, p), RuleInfo(rule)) >>
          ELSE <<>>)
         \o ScanRule(rule, content, filename, personalize, p + 1)

RECURSIVE ScanPatterns_Dedup(_, _, _, _, _)
\* Mutant: an issue is dropped when an earlier rule of the dict already
\* reported an issue on the same line.
ScanPatterns_Dedup(patterns, content, filename, personalize, k) ==
    IF k > Len(patterns) THEN <<>>
    ELSE LET mine == ScanRule(patterns[k], content, filename, personalize, 1)
             rest == ScanPatterns_Dedup(patterns, content, filename, personalize, k + 1)
             IsNew(issue) == \A m \in 1..Len(mine) : mine[m].line # issue.line
         IN mine \o SelectSeq(rest, IsNew)

RECURSIVE ScanPatterns(_, _, _, _, _)
\* the outer loop "for pattern, issue_info in patterns.items()" from key k on
ScanPatterns(patterns, content, filename, personalize, k) ==
    IF k > Len(patterns) THEN <<>>
    ELSE ScanRule(patterns[k], content, filename, personalize, 1)
         \o ScanPatterns(patterns, content, filename, personalize, k + 1)

_analyze_security(filename, content, language, cfg) ==
    ScanPatterns(security_patterns(language, cfg), content, filename, FALSE, 1)

_analyze_performance(filename, content, language, cfg) ==
    ScanPatterns(performance_patterns(language, cfg), content, filename, FALSE, 1)

_analyze_code_quality(filename, content, language, cfg) ==
    ScanPatterns(quality_patterns(language, cfg), content, filename, FALSE, 1)

_analyze_test_coverage(filename, content, language, cfg) ==
    ScanPatterns(language_patterns(filename, language), content, filename, TRUE, 1)

(***************************************************************************)
(* Configuration.  A dict is a function from its keys.                     *)
(***************************************************************************)
_get_default_config ==
    [ strictness_level |-> 3,
      focus_areas |-> <<"security", "performance", "code_quality">>,
      verbosity |-> "normal",
      issue_thresholds |-> [critical |-> "block", high |-> "block",
                            medium |-> "warn", low |-> "report"],
      language_rules |-> <<>>,
      custom_rules |-> <<>> ]

\* Mutant: the defaults are one shared dict that the merge of the previous
\* call has overwritten in place.
MergeConfig_SharedDefault(default_config, cfg) ==
    LET previous == IF first # <<>> THEN first[1].config ELSE [key \in {} |-> 0]
    IN [key \in (DOMAIN default_config) \cup (DOMAIN previous) \cup (DOMAIN cfg) |->
           IF key \in DOMAIN cfg THEN cfg[key]
           ELSE IF key \in DOMAIN previous THEN previous[key]
           ELSE default_config[key]]

\* for key, value in config.items(): default_config[key] = value
MergeConfig(default_config, cfg) ==
    [key \in (DOMAIN default_config) \cup (DOMAIN cfg) |->
        IF key \in DOMAIN cfg THEN cfg[key] ELSE default_config[key]]

EmptyDict == [key \in {} |-> 0]

DocsPattern == [kind |-> "dir", name |-> "docs"]

\* The config arguments of the model: none (None or {}), a strictness level,
\* a custom skip pattern (^docs/), or both.
CallerConfigs ==
    {EmptyDict,
     [strictness_level |-> 2],
     [strictness_level |-> 4],
     [skip_patterns |-> <<DocsPattern>>],
     [strictness_level |-> 4, skip_patterns |-> <<DocsPattern>>]}

StrictnessLevels == 1..5

ScanConfigs == {[strictness_level |-> s] : s \in StrictnessLevels}

(***************************************************************************)
(* The collaborator (GitHubService).                                       *)
(***************************************************************************)
Statuses == {"modified", "removed"}

\* (additions, deletions) of a file of the model
LineCounts == {<<1, 0>>, <<2, 3>>}

FileMetas ==
    {[filename |-> f, status |-> st, additions |-> lc[1], deletions |-> lc[2]] :
        f \in ReviewNames, st \in Statuses, lc \in LineCounts}

\* The file lists a pull request can have: every path at most once.
PullRequests(metas, n) ==
    {files \in UNION {[1..k -> metas] : k \in 0..n} :
        \A i, j \in 1..Len(files) : files[i].filename = files[j].filename => i = j}

Unobserved == [kind |-> "unobserved"]
NotFound == [kind |-> "not_found"]         \* GithubException with status 404
FetchError == [kind |-> "error"]           \* any other exception of get_contents
Ok(content) == [kind |-> "ok", content |-> content]

SampleContents ==
    { <<>>,
      <<"secret", "nl", "dotdot", "nl", "cors">>,
      <<"nestedfor", "eval", "todo", "nl", "defun">> }

SampleOutcomes == {NotFound, FetchError} \cup {Ok(c) : c \in SampleContents}

AllContents == UNION {[1..k -> Fragments] : k \in 0..MaxContentLen}

AllOutcomes == {Ok(c) : c \in AllContents}

(***************************************************************************)
(* review_code                                                             *)
(***************************************************************************)
RECURSIVE SumAdditions(_, _)
SumAdditions(files, k) ==
    IF k > Len(files) THEN 0 ELSE files[k].additions + SumAdditions(files, k + 1)

RECURSIVE SumDeletions(_, _)
SumDeletions(files, k) ==
    IF k > Len(files) THEN 0 ELSE files[k].deletions + SumDeletions(files, k + 1)

\* Mutant: removed files are not counted.
FilesAnalyzed_NotRemoved(files) ==
    Cardinality({k \in 1..Len(files) : files[k].status # "removed"})

FilesAnalyzed(files) == Len(files)

\* Mutant: the deletions are summed in place of the additions.
LinesAdded_Deletions(files) == SumDeletions(files, 1)

LinesAdded(files) == SumAdditions(files, 1)

LinesRemoved(files) == SumDeletions(files, 1)

\* Mutant: a later call starts from the lists the previous call returned.
InitialResults_Stale(files) ==
    IF first # <<>> /\ first[1].returned # <<>>
    THEN [first[1].returned[1] EXCEPT
            !.statistics.files_analyzed = Len(files),
            !.statistics.lines_added = SumAdditions(files, 1),
            !.statistics.lines_removed = SumDeletions(files, 1),
            !.statistics.severity_counts =
                [critical |-> 0, high |-> 0, medium |-> 0, low |-> 0]]
    ELSE [ security_issues |-> <<>>,
           performance_issues |-> <<>>,
           code_quality_issues |-> <<>>,
           test_coverage_issues |-> <<>>,
           statistics |->
             [ files_analyzed |-> Len(files),
               lines_added |-> SumAdditions(files, 1),
               lines_removed |-> SumDeletions(files, 1),
               issue_counts |-> [security |-> 0, performance |-> 0,
                                 code_quality |-> 0, test_coverage |-> 0],
               severity_counts |-> [critical |-> 0, high |-> 0, medium |-> 0, low |-> 0] ] ]

InitialResults(files) ==
    [ security_issues |-> <<>>,
      performance_issues |-> <<>>,
      code_quality_issues |-> <<>>,
      test_coverage_issues |-> <<>>,
      statistics |->
        [ files_analyzed |-> FilesAnalyzed(files),
          lines_added |-> LinesAdded(files),
          lines_removed |-> LinesRemoved(files),
          issue_counts |-> [security |-> 0, performance |-> 0,
                            code_quality |-> 0, test_coverage |-> 0],
          severity_counts |-> [critical |-> 0, high |-> 0, medium |-> 0, low |-> 0] ] ]

\* Mutant: the counter is advanced once per file with issues, not once per issue.
CountIncrement_PerFile(issues) == IF Len(issues) > 0 THEN 1 ELSE 0

\* results[category].extend(issues); issue_counts[name] += len(issues)
CountIncrement(issues) == Len(issues)

\* Mutant: the issues of a file are put in front of those collected so far.
AddFileIssues_Prepend(res, sec, perf, qual, test) ==
    [res EXCEPT
        !.security_issues = sec \o @,
        !.performance_issues = perf \o @,
        !.code_quality_issues = qual \o @,
        !.test_coverage_issues = test \o @,
        !.statistics.issue_counts.security = @ + CountIncrement(sec),
        !.statistics.issue_counts.performance = @ + CountIncrement(perf),
        !.statistics.issue_counts.code_quality = @ + CountIncrement(qual),
        !.statistics.issue_counts.test_coverage = @ + CountIncrement(test)]

AddFileIssues(res, sec, perf, qual, test) ==
    [res EXCEPT
        !.security_issues = @ \o sec,
        !.performance_issues = @ \o perf,
        !.code_quality_issues = @ \o qual,
        !.test_coverage_issues = @ \o test,
        !.statistics.issue_counts.security = @ + CountIncrement(sec),
        !.statistics.issue_counts.performance = @ + CountIncrement(perf),
        !.statistics.issue_counts.code_quality = @ + CountIncrement(qual),
        !.statistics.issue_counts.test_coverage = @ + CountIncrement(test)]

\* severity = issue.get("severity", "medium").lower()
SeverityBucket(issue) == issue.severity

RECURSIVE CountSeverities(_, _, _)
\* for issue in issues: severity_counts[severity] += 1
CountSeverities(issues, k, counts) ==
    IF k > Len(issues) THEN counts
    ELSE CountSeverities(issues, k + 1,
                         [counts EXCEPT ![SeverityBucket(issues[k])] = @ + 1])

\* Mutant: the severity loop leaves out the test coverage list.
AllIssues_NoTestCoverage(res) ==
    res.security_issues \o res.performance_issues \o res.code_quality_issues

\* the four category lists in the order of the severity loop
AllIssues(res) ==
    res.security_issues \o res.performance_issues
        \o res.code_quality_issues \o res.test_coverage_issues

UpdateSeverityCounts(res) ==
    [res EXCEPT !.statistics.severity_counts = CountSeverities(AllIssues(res), 1, @)]

NoResult == <<>>

\* The locals of a call that has not started.
FreshCall ==
    /\ pc' = "start"
    /\ config' = EmptyDict
    /\ pr_files' = <<>>
    /\ idx' = 1
    /\ results' = InitialResults(<<>>)
    /\ applied' = <<>>
    /\ fetchLog' = <<>>
    /\ returned' = NoResult
    /\ cancel_at' = <<>>
    /\ refLog' = <<>>
    /\ UNCHANGED <<head, mw_vars, detect_vars>>

\* request.client.host of the requests the application receives.
Clients == {"10.0.0.1", "10.0.0.2"}

InitWith(prs, configs) ==
    /\ review = 1
    /\ first = <<>>
    /\ pc = "start"
    /\ pr \in prs
    /\ repo = [f \in FileNames |-> Unobserved]
    /\ caller_config \in configs
    /\ config = EmptyDict
    /\ pr_files = <<>>
    /\ idx = 1
    /\ results = InitialResults(<<>>)
    /\ applied = <<>>
    /\ fetchLog = <<>>
    /\ returned = NoResult
    /\ cancel_at = <<>>
    /\ head = 1
    /\ refLog = <<>>
    /\ request_records = EmptyDict
    /\ current_time = 0
    /\ forwarded = [client \in Clients |-> <<>>]
    /\ exchange = <<>>
    /\ filename_arg = AppPy
    /\ classification = <<>>

Init == InitWith(PullRequests(FileMetas, MaxFiles), CallerConfigs)

\* Mutant: the exception is swallowed and the results built so far are returned.
Raise_ReturnsPartial ==
    /\ pc' = "done"
    /\ returned' = <<results>>

\* An exception leaves review_code: nothing is returned.
Raise ==
    /\ pc' = "failed"
    /\ returned' = NoResult

\* Lines 22-57: merge the config, await get_pr_files, build the results dict.
Start ==
    /\ pc = "start"
    /\ config' = MergeConfig(_get_default_config, caller_config)
    /\ \/ /\ pr_files' = pr
          /\ results' = InitialResults(pr)
          /\ applied' = [i \in 1..Len(pr) |-> <<>>]
          /\ idx' = 1
          /\ pc' = "loop"
          /\ UNCHANGED returned
       \/ /\ Raise       \* get_pr_files raised
          /\ UNCHANGED <<pr_files, results, applied, idx>>
    /\ UNCHANGED <<pr, repo, caller_config, fetchLog, review, first, cancel_at,
                   head_vars, mw_vars, detect_vars>>

\* Mutant: the status is compared with a value the collaborator never reports.
NeedsContent_WrongStatus(file_info) == file_info.status # "deleted"

\* Line 69: the content of a file is fetched unless the file was removed.
NeedsContent(file_info) == file_info.status # "removed"

\* Lines 60-69, 74-75: the head of one loop iteration, up to its first await.
NextFile ==
    /\ pc = "loop"
    /\ idx <= Len(pr_files)
    /\ LET file_info == pr_files[idx]
       IN IF SkipRaises(file_info.filename, config)
          THEN /\ Raise                          \* re.error leaves review_code
               /\ idx' = idx
          ELSE IF _should_skip_file(file_info.filename, config)
          THEN /\ idx' = idx + 1                 \* continue
               /\ pc' = "loop"
               /\ UNCHANGED returned
          ELSE IF NeedsContent(file_info)
          THEN /\ pc' = "get_pull_request"
               /\ idx' = idx
               /\ UNCHANGED returned
          ELSE /\ idx' = idx + 1                 \* file_content == "": continue
               /\ pc' = "loop"
               /\ UNCHANGED returned
    /\ UNCHANGED <<pr, repo, caller_config, config, pr_files, results, applied,
                   fetchLog, review, first, cancel_at, head_vars, mw_vars, detect_vars>>

\* Line 71: await github_service.get_pull_request(pr_number)
GetPullRequest ==
    /\ pc = "get_pull_request"
    /\ \/ pc' = "get_file_content" /\ UNCHANGED returned
       \/ Raise
    /\ UNCHANGED <<pr, repo, caller_config, config, pr_files, idx, results, applied,
                   fetchLog, review, first, cancel_at, head_vars, mw_vars, detect_vars>>

\* Mutant: the exception is swallowed and the file is treated as empty.
FetchRaises_Never(outcome) == FALSE

\* Mutant: the 404 branch is missing, every GithubException is re-raised.
FetchRaises_On404(outcome) == outcome.kind # "ok"

\* GitHubService.get_file_content, lines 77-79 and 83-87: a directory and every
\* GithubException other than a 404 leave the call as an exception.
FetchRaises(outcome) == outcome.kind = "error"

\* GitHubService.get_file_content: the decoded content, "" on a 404.
ContentOf(outcome) == IF outcome.kind = "ok" THEN outcome.content ELSE <<>>

\* Line 239: "strictness >= 3" raises TypeError when strictness is not a
\* number; _analyze_security is the first analyzer called (line 83) and
\* nothing catches the exception.
AnalyzeRaises(cfg) == ~StrictnessIsNumber(cfg)

\* Lines 77-100: classify the file and run the four analyzers on its content.
AnalyzeFile(res, filename, file_content, cfg) ==
    LET language == _detect_language(filename)[1]
    IN AddFileIssues(res,
                     _analyze_security(filename, file_content, language, cfg),
                     _analyze_performance(filename, file_content, language, cfg),
                     _analyze_code_quality(filename, file_content, language, cfg),
                     _analyze_test_coverage(filename, file_content, language, cfg))

\* The pattern dicts the four analyzers build for the file.
PatternDicts(filename, cfg) ==
    LET language == _detect_language(filename)[1]
    IN [security |-> security_patterns(language, cfg),
        performance |-> performance_patterns(language, cfg),
        code_quality |-> quality_patterns(language, cfg),
        test_coverage |-> language_patterns(filename, language)]

\* Line 72 and lines 74-100: await get_file_content, then the rest of the iteration.
\* The collaborator answers a path as it answered it before.
GetFileContent(outcomes) ==
    /\ pc = "get_file_content"
    /\ LET filename == pr_files[idx].filename
       IN \E outcome \in outcomes :
            /\ repo[filename] \in {Unobserved, outcome}
            /\ repo' = [repo EXCEPT ![filename] = outcome]
            /\ fetchLog' = Append(fetchLog, filename)
            /\ IF FetchRaises(outcome)
               THEN /\ Raise
                    /\ UNCHANGED <<idx, results, applied>>
               ELSE IF ContentOf(outcome) = <<>>
               THEN /\ pc' = "loop"                              \* not file_content: continue
                    /\ idx' = idx + 1
                    /\ UNCHANGED <<returned, results, applied>>
               ELSE IF AnalyzeRaises(config)
               THEN /\ Raise                                     \* TypeError leaves review_code
                    /\ UNCHANGED <<idx, results, applied>>
               ELSE /\ pc' = "loop"
                    /\ idx' = idx + 1
                    /\ UNCHANGED returned
                    /\ results' = AnalyzeFile(results, filename, ContentOf(outcome), config)
                    /\ applied' = [applied EXCEPT ![idx] = <<PatternDicts(filename, config)>>]
    /\ refLog' = Append(refLog, head)
    /\ UNCHANGED <<pr, caller_config, config, pr_files, review, first, cancel_at,
                   head, mw_vars, detect_vars>>

\* Lines 102-108: the severity pass and the return.
Finish ==
    /\ pc = "loop"
    /\ idx > Len(pr_files)
    /\ results' = UpdateSeverityCounts(results)
    /\ returned' = <<results'>>
    /\ pc' = "done"
    /\ UNCHANGED <<pr, repo, caller_config, config, pr_files, idx, applied,
                   fetchLog, review, first, cancel_at, head_vars, mw_vars, detect_vars>>

\* The caller calls review_code again, for the same pull request against the
\* same collaborator, with one of the given configs.
Rerun(configs) ==
    /\ pc = "done"
    /\ review < MaxReviews
    /\ first' = <<[config |-> caller_config, returned |-> returned,
                   applied |-> applied, fetchLog |-> fetchLog]>>
    /\ review' = review + 1
    /\ caller_config' \in configs
    /\ FreshCall
    /\ UNCHANGED <<pr, repo>>

Next ==
    \/ Start
    \/ NextFile
    \/ GetPullRequest
    \/ GetFileContent(SampleOutcomes)
    \/ Finish
    \/ Rerun({caller_config})

Spec == Init /\ [][Next]_vars

(***************************************************************************)
(* The scanning specification: a pull request of one modified file whose   *)
(* content is any sequence of at most MaxContentLen fragments, reviewed at *)
(* every strictness level, and reviewed again at any level.                *)
(***************************************************************************)
ScanNames == {AppPy, MainJs, GuideMd, TestAppPy}

ScanPullRequests ==
    {<<[filename |-> f, status |-> "modified", additions |-> 1, deletions |-> 0]>> :
        f \in ScanNames}

InitScan == InitWith(ScanPullRequests, ScanConfigs)

NextScan ==
    \/ Start
    \/ NextFile
    \/ GetPullRequest
    \/ GetFileContent(AllOutcomes)
    \/ Finish
    \/ Rerun(ScanConfigs)

SpecScan == InitScan /\ [][NextScan]_vars

(***************************************************************************)
(* The configuration specification: pull requests of modified files that   *)
(* all have the same content, reviewed under every kind of config argument *)
(* a caller can pass, and reviewed again under any of them.                *)
(***************************************************************************)
MalformedPattern == [kind |-> "malformed"]

\* A Rule-shaped object as the caller writes it in custom_rules or in
\* language_rules: pattern names the fragment its regex matches
\* ("malformed": a regex that does not compile).
CustomRule(id, pattern, languages, minStrictness) ==
    [id |-> id, category |-> "security", pattern |-> pattern, severity |-> "high",
     issue |-> "Custom rule matched", languages |-> languages,
     minStrictness |-> minStrictness]

PlainRule == CustomRule("custom-plain", "plain", {}, 1)

PythonRule == CustomRule("custom-python", "plain", {"python"}, 1)

MalformedRule == CustomRule("custom-malformed", "malformed", {}, 1)

\* The config arguments of this specification: none, a custom skip pattern,
\* a strictness level outside 1..5, a strictness level that is not a
\* number, a skip pattern that does not compile, rules in custom_rules and
\* in language_rules, a custom rule whose pattern does not compile.
ConfigCases ==
    {EmptyDict,
     [skip_patterns |-> <<DocsPattern>>],
     [strictness_level |-> 7],
     [strictness_level_text |-> "high"],
     [skip_patterns |-> <<MalformedPattern>>],
     [custom_rules |-> <<PlainRule, PythonRule>>],
     [language_rules |-> [python |-> <<PlainRule>>]],
     [custom_rules |-> <<MalformedRule>>]}

ConfigNames == {AppPy, GuideMd, BundleJs}

ConfigMetas ==
    {[filename |-> f, status |-> "modified", additions |-> 1, deletions |-> 0] :
        f \in ConfigNames}

ConfigOutcomes == {Ok(<<"plain", "nl", "secret">>)}

InitConfig == InitWith(PullRequests(ConfigMetas, MaxFiles), ConfigCases)

NextConfig ==
    \/ Start
    \/ NextFile
    \/ GetPullRequest
    \/ GetFileContent(ConfigOutcomes)
    \/ Finish
    \/ Rerun(ConfigCases)

SpecConfig == InitConfig /\ [][NextConfig]_vars

(***************************************************************************)
(* The cancellation specification: the caller of review_code may abandon   *)
(* the call while a content fetch is in flight.                            *)
(***************************************************************************)
\* The caller abandons the call during a fetch.  get_file_content is a
\* coroutine with no suspension point (its body is blocking PyGithub calls
\* only), and review_code has no other await that suspends: the request
\* to cancel is noted and nothing in review_code observes it.
Cancel ==
    /\ pc = "get_file_content"
    /\ cancel_at = <<>>
    /\ cancel_at' = <<Len(fetchLog) + 1>>
    /\ UNCHANGED <<pc, pr, repo, caller_config, config, pr_files, idx, results,
                   applied, fetchLog, returned, review, first, head_vars, mw_vars, detect_vars>>

InitCancel == InitWith(PullRequests(ConfigMetas, MaxFiles), {EmptyDict})

NextCancel ==
    \/ Start
    \/ NextFile
    \/ GetPullRequest
    \/ GetFileContent(SampleOutcomes)
    \/ Finish
    \/ Cancel

SpecCancel == InitCancel /\ [][NextCancel]_vars

(***************************************************************************)
(* The moving-head specification: the head branch of the pull request may  *)
(* be pushed to at any moment, during a review or between two reviews.     *)
(***************************************************************************)
MaxHead == 2

\* A push to the head branch: pr.head.ref is a branch name, get_contents
\* resolves it when it is called, so later reads are made at the new
\* commit; the push changed at most one file of the model, whose content
\* at the new commit has not been observed yet.
Push ==
    /\ head < MaxHead
    /\ head' = head + 1
    /\ \E changed \in {{}} \cup {{f} : f \in FileNames} :
          repo' = [f \in FileNames |-> IF f \in changed THEN Unobserved ELSE repo[f]]
    /\ UNCHANGED <<pc, pr, caller_config, config, pr_files, idx, results, applied,
                   fetchLog, returned, review, first, cancel_at, refLog, mw_vars, detect_vars>>

HeadOutcomes == {NotFound, Ok(<<>>), Ok(<<"plain">>), Ok(<<"secret">>)}

InitHead == InitWith(PullRequests(ConfigMetas, MaxFiles), {EmptyDict})

NextHead ==
    \/ Start
    \/ NextFile
    \/ GetPullRequest
    \/ GetFileContent(HeadOutcomes)
    \/ Finish
    \/ Rerun({caller_config})
    \/ Push

SpecHead == InitHead /\ [][NextHead]_vars

(***************************************************************************)
(* The captured-groups specification: a pull request of one modified file  *)
(* whose content is any sequence of at most MaxContentLen of the pieces of *)
(* GroupFragments, reviewed under the default config.                      *)
(***************************************************************************)
GroupNames == {AppPy, MainJs}

GroupPullRequests ==
    {<<[filename |-> f, status |-> "modified", additions |-> 1, deletions |-> 0]>> :
        f \in GroupNames}

GroupOutcomes == {Ok(c) : c \in UNION {[1..k -> GroupFragments] : k \in 0..MaxContentLen}}

InitGroups == InitWith(GroupPullRequests, {EmptyDict})

NextGroups ==
    \/ Start
    \/ NextFile
    \/ GetPullRequest
    \/ GetFileContent(GroupOutcomes)
    \/ Finish

SpecGroups == InitGroups /\ [][NextGroups]_vars

(***************************************************************************)
(* The classification specification: _detect_language is called with any  *)
(* filename of at most MaxParts dot-separated parts, in or out of a        *)
(* directory.                                                              *)
(***************************************************************************)
MaxParts == 2

\* The dot-separated parts the filenames are made of ("" before a leading
\* dot, after a trailing dot and between two dots).
NameParts == {"", "app", "Dockerfile", "py", "PY", "env", "gz", "md"}

DetectNames ==
    {FN(d, p) : d \in {<<>>, <<"src">>},
                p \in UNION {[1..n -> NameParts] : n \in 1..MaxParts}}

DetectLanguage ==
    /\ \E filename \in DetectNames :
          /\ filename_arg' = filename
          /\ classification' = <<_detect_language(filename)>>
    /\ UNCHANGED <<review_vars, mw_vars>>

InitDetect ==
    /\ InitWith({<<>>}, {EmptyDict})
    /\ classification = <<>>

NextDetect == DetectLanguage

SpecDetect == InitDetect /\ [][NextDetect]_vars

(***************************************************************************)
(* The middleware stack of main.py.  add_middleware puts the middleware    *)
(* added last outermost: a request passes AuthMiddleware, then             *)
(* RateLimiter, then the rest of the application (logging, CORS and the    *)
(* route handlers).                                                        *)
(*                                                                         *)
(* A URL path is the sequence of its pieces, "/" being a piece of its own: *)
(* /api/code-review is <<"/", "api", "/", "code-review">>.  No piece is a  *)
(* prefix of another, so a string is a prefix of a string exactly when its *)
(* pieces are a prefix of the other's.                                     *)
(***************************************************************************)
\* RateLimiter(max_requests=100, window_seconds=60) in main.py; the model
\* runs the same code with a small limit and a short window.
max_requests == 2

window_seconds == 2

MaxTime == 3

MaxCalls == 5

\* str.startswith
startswith(string, prefix) ==
    /\ Len(prefix) <= Len(string)
    /\ SubSeq(string, 1, Len(prefix)) = prefix

\* exclude_paths as main.py passes it to AuthMiddleware
exclude_paths ==
    << <<"/", "docs">>, <<"/", "redoc">>, <<"/", "openapi.json">>, <<"/", "health">>,
       <<"/", "readiness">>, <<"/", "liveness">>, <<"/">> >>

\* any(request.url.path.startswith(path) for path in self.exclude_paths)
IsExcluded(path) ==
    \E k \in 1..Len(exclude_paths) : startswith(path, exclude_paths[k])

\* An Authorization header is <<>> (absent) or <<scheme, credentials>>, the
\* scheme with the blank after it.
NoHeader == <<>>

Headers ==
    {NoHeader, <<"Basic ", "valid">>, <<"Bearer ", "">>, <<"Bearer ", "valid">>,
     <<"Bearer ", "forged">>, <<"Bearer ", "expired">>}

\* _get_token_from_header: <<>> for None
_get_token_from_header(header) ==
    IF header = NoHeader \/ header[1] # "Bearer " THEN <<>> ELSE <<header[2]>>

\* jwt.decode(token, SECRET_KEY, algorithms=[ALGORITHM]) returns a payload
\* (for a token signed with the key and not expired) or raises PyJWTError.
jwt_decode_raises(token) == token # "valid"

\* AuthMiddleware.dispatch: 401, or 0 when the request is passed to call_next.
AuthResponse(path, header) ==
    IF IsExcluded(path) THEN 0
    ELSE LET token == _get_token_from_header(header)
         IN IF token = <<>> \/ token[1] = "" THEN 401      \* not token
            ELSE IF jwt_decode_raises(token[1]) THEN 401
            ELSE 0

\* self.request_records.get(client_ip), [] for a new client
Records(records, client_ip) ==
    IF client_ip \in DOMAIN records THEN records[client_ip] ELSE <<>>

\* Mutant: a timestamp exactly window_seconds old is dropped.
KeepRecord_Strict(now, timestamp) == now - timestamp < window_seconds

\* current_time - timestamp <= self.window_seconds
KeepRecord(now, timestamp) == now - timestamp <= window_seconds

\* Lines 37-40: the records of the client that are inside the window.
PruneRecords(records, client_ip, now) ==
    LET Keep(timestamp) == KeepRecord(now, timestamp)
    IN SelectSeq(Records(records, client_ip), Keep)

\* Mutant: the request is recorded before the limit is checked.
_is_rate_limited_RecordsRejected(records, client_ip, now) ==
    LET kept == PruneRecords(records, client_ip, now)
    IN [limited |-> Len(kept) >= max_requests,
        request_records |->
            [c \in (DOMAIN records) \cup {client_ip} |->
                IF c = client_ip THEN Append(kept, now) ELSE records[c]]]

\* RateLimiter._is_rate_limited: the value it returns and the
\* request_records it leaves.
_is_rate_limited(records, client_ip, now) ==
    LET kept == PruneRecords(records, client_ip, now)
        limited == Len(kept) >= max_requests
    IN [limited |-> limited,
        request_records |->
            [c \in (DOMAIN records) \cup {client_ip} |->
                IF c = client_ip
                THEN (IF limited THEN kept ELSE Append(kept, now))
                ELSE records[c]]]

\* Number of the last request.
Calls == IF exchange = <<>> THEN 0 ELSE exchange[1].n

\* Number of requests RateLimiter has answered with 429 so far.
Rejections == IF exchange = <<>> THEN 0 ELSE exchange[1].rejections

\* A client sends a request; it passes AuthMiddleware.dispatch, then
\* RateLimiter.dispatch, then reaches the application.
HttpRequest(clients, paths, headers) ==
    /\ Calls < MaxCalls
    /\ \E client_ip \in clients, path \in paths, header \in headers :
          LET auth == AuthResponse(path, header)
              rate == _is_rate_limited(request_records, client_ip, current_time)
              status == IF auth = 401 THEN 401 ELSE IF rate.limited THEN 429 ELSE 200
          IN /\ request_records' = IF auth = 401 THEN request_records
                                   ELSE rate.request_records
             /\ forwarded' = IF status = 200
                             THEN [forwarded EXCEPT ![client_ip] = Append(@, current_time)]
                             ELSE forwarded
             /\ exchange' = <<[n |-> Calls + 1, client |-> client_ip, path |-> path,
                               header |-> header, time |-> current_time,
                               status |-> status, handled |-> status = 200,
                               rejections |-> Rejections + (IF status = 429 THEN 1 ELSE 0)]>>
    /\ UNCHANGED <<current_time, review_vars, detect_vars>>

\* time.time() advances.
Tick ==
    /\ current_time < MaxTime
    /\ current_time' = current_time + 1
    /\ UNCHANGED <<request_records, forwarded, exchange, review_vars, detect_vars>>

InitHttp == InitWith({<<>>}, {EmptyDict})

\* The requests of the authentication specification: one client, the
\* routes of the application and the documentation, every header.
AuthPaths ==
    { <<"/">>, <<"/", "health">>, <<"/", "docs">>, <<"/", "api", "/", "code-review">>,
      <<"/", "api", "/", "pr-summary">> }

NextAuth ==
    \/ HttpRequest({"10.0.0.1"}, AuthPaths, Headers)
    \/ Tick

SpecAuth == InitHttp /\ [][NextAuth]_vars

\* The requests of the rate specification: every client, one route.
NextRate ==
    \/ HttpRequest(Clients, {<<"/", "health">>}, {NoHeader})
    \/ Tick

SpecRate == InitHttp /\ [][NextRate]_vars

(***************************************************************************)
(* Properties of the results of review_code.                               *)
(***************************************************************************)
Categories == {"security", "performance", "code_quality", "test_coverage"}

Severities == {"critical", "high", "medium", "low"}

\* The issue list of a category in a results dict.
IssuesOf(res, category) ==
    CASE category = "security" -> res.security_issues
      [] category = "performance" -> res.performance_issues
      [] category = "code_quality" -> res.code_quality_issues
      [] category = "test_coverage" -> res.test_coverage_issues

\* Some issue of the results dict names the file.
HasIssueFor(res, filename) ==
    \E c \in Categories : \E k \in 1..Len(IssuesOf(res, c)) : IssuesOf(res, c)[k].file = filename

Fetched(filename) == \E k \in 1..Len(fetchLog) : fetchLog[k] = filename

Returned == returned # NoResult

TotalIssues(res) ==
    Len(res.security_issues) + Len(res.performance_issues)
        + Len(res.code_quality_issues) + Len(res.test_coverage_issues)

\* C1: in every returned result, issue_counts[c] is the length of the issue
\* list of category c, for each of the four categories.
C1_IssueCountsAreListLengths ==
    Returned =>
        \A c \in Categories :
            returned[1].statistics.issue_counts[c] = Len(IssuesOf(returned[1], c))

\* C1 witness: a result over two scanned files with several security issues
\* and issues in the other categories.
C1_Witness ==
    /\ Returned
    /\ Len(fetchLog) = 2
    /\ Len(returned[1].security_issues) >= 3
    /\ Len(returned[1].performance_issues) >= 1
    /\ Len(returned[1].test_coverage_issues) >= 1
    /\ returned[1].statistics.issue_counts.security >= 3

\* C2: in every returned result the four severity_counts add up to the sum
\* of the four issue_counts.
C2_SeverityCountsSumToIssueCounts ==
    Returned =>
        LET st == returned[1].statistics
        IN st.severity_counts.critical + st.severity_counts.high
             + st.severity_counts.medium + st.severity_counts.low
           = st.issue_counts.security + st.issue_counts.performance
               + st.issue_counts.code_quality + st.issue_counts.test_coverage

\* C2 witness: a result whose issues fall into all four severity buckets and
\* include a test coverage issue.
C2_Witness ==
    /\ Returned
    /\ \A sev \in Severities : returned[1].statistics.severity_counts[sev] >= 1
    /\ Len(returned[1].test_coverage_issues) >= 1

\* C3: files_analyzed of a returned result is the number of files of the
\* collaborator's list, skipped, removed and empty files included.
C3_FilesAnalyzedIsInputLength ==
    Returned => returned[1].statistics.files_analyzed = Len(pr)

\* C3 witness: a result for a list of two files, one removed and skipped by
\* a pattern, the other not found at the collaborator.
C3_Witness ==
    /\ Returned
    /\ Len(pr) = 2
    /\ \E i \in 1..2 : pr[i].status = "removed" /\ _should_skip_file(pr[i].filename, config)
    /\ \E i \in 1..2 : repo[pr[i].filename] = NotFound
    /\ returned[1].statistics.files_analyzed = 2

\* The sum of a field over the collaborator's list, by summing out the values.
SumOver(files, Field(_)) ==
    LET values == {Field(files[k]) : k \in 1..Len(files)}
        times(v) == Cardinality({k \in 1..Len(files) : Field(files[k]) = v})
        sum[S \in SUBSET values] ==
            IF S = {} THEN 0
            ELSE LET v == CHOOSE x \in S : TRUE IN v * times(v) + sum[S \ {v}]
    IN sum[values]

AdditionsOf(file_info) == file_info.additions

DeletionsOf(file_info) == file_info.deletions

\* C4: lines_added is the sum of the additions and lines_removed the sum of
\* the deletions over all files of the collaborator's list.
C4_LineStatisticsAreSums ==
    Returned =>
        /\ returned[1].statistics.lines_added = SumOver(pr, AdditionsOf)
        /\ returned[1].statistics.lines_removed = SumOver(pr, DeletionsOf)

\* C4 witness: a result for two files with different line counts of which
\* one was skipped and one was scanned.
C4_Witness ==
    /\ Returned
    /\ Len(pr) = 2
    /\ \E i \in 1..2 : _should_skip_file(pr[i].filename, config)
    /\ Len(fetchLog) = 1
    /\ returned[1].statistics.lines_added = 3
    /\ returned[1].statistics.lines_removed = 3

\* The filename matches a built-in skip pattern or a pattern of the caller's
\* skip_patterns.
MatchesSkipPattern(filename) ==
    \/ \E k \in 1..Len(skip_patterns) : re_search(skip_patterns[k], filename)
    \/ /\ "skip_patterns" \in DOMAIN caller_config
       /\ \E k \in 1..Len(caller_config["skip_patterns"]) :
              re_search(caller_config["skip_patterns"][k], filename)

\* C5: a file whose name matches a built-in or a custom skip pattern has no
\* issue in any category list and its content is never fetched.
C5_SkippedFilesYieldNothing ==
    \A i \in 1..Len(pr) :
        MatchesSkipPattern(pr[i].filename) =>
            /\ ~Fetched(pr[i].filename)
            /\ ~HasIssueFor(results, pr[i].filename)
            /\ Returned => ~HasIssueFor(returned[1], pr[i].filename)

\* C5 witness: a finished review of a modified file under dist/ and a modified
\* file under docs/ with ^docs/ as custom skip pattern.
C5_Witness ==
    /\ Returned
    /\ Len(pr) = 2
    /\ \E i \in 1..2 : pr[i].filename = BundleJs /\ pr[i].status = "modified"
    /\ \E i \in 1..2 : pr[i].filename = GuideMd /\ pr[i].status = "modified"
    /\ "skip_patterns" \in DOMAIN caller_config
    /\ fetchLog = <<>>

\* C6: a removed file is counted in files_analyzed, has no issue in any
\* category and no get_file_content call is made for it.
C6_RemovedFilesCountedNotFetched ==
    \A i \in 1..Len(pr) :
        pr[i].status = "removed" =>
            /\ ~Fetched(pr[i].filename)
            /\ ~HasIssueFor(results, pr[i].filename)
            /\ Returned =>
                 /\ ~HasIssueFor(returned[1], pr[i].filename)
                 /\ returned[1].statistics.files_analyzed = Len(pr)
                 /\ returned[1].statistics.files_analyzed >= 1

\* C6 witness: a finished review of a removed file no skip pattern matches
\* and of a scanned file with issues.
C6_Witness ==
    /\ Returned
    /\ Len(pr) = 2
    /\ \E i \in 1..2 : pr[i].status = "removed" /\ ~MatchesSkipPattern(pr[i].filename)
    /\ Len(fetchLog) = 1
    /\ TotalIssues(returned[1]) >= 1

\* C10: a second call with the same config against the same file list and
\* contents returns the result of the first call, list order included.
C10_SecondReviewReturnsSameResult ==
    (first # <<>> /\ Returned /\ first[1].config = caller_config) =>
        returned = first[1].returned

\* C10 witness: a second call returned a result with several issues from two
\* scanned files.
C10_Witness ==
    /\ first # <<>>
    /\ Returned
    /\ first[1].config = caller_config
    /\ Len(fetchLog) = 2
    /\ Len(returned[1].security_issues) >= 3

(***************************************************************************)
(* Properties of rule selection and scanning (specification SpecScan).     *)
(***************************************************************************)
Range(seq) == {seq[k] : k \in 1..Len(seq)}

\* The content the collaborator served for the file ("" if none was served).
ServedContent(filename) == ContentOf(repo[filename])

\* C7: for every category, the rules applied to a file at level 4 include
\* those applied to it at level 3, which include those applied at level 2.
C7_RuleSetsGrowWithStrictness ==
    (/\ first # <<>>
     /\ Strictness(first[1].config) \in 2..4
     /\ Strictness(caller_config) \in 2..4
     /\ Strictness(first[1].config) <= Strictness(caller_config)) =>
        \A i \in 1..Len(applied) :
            (i <= Len(first[1].applied) /\ applied[i] # <<>> /\ first[1].applied[i] # <<>>) =>
                \A c \in Categories :
                    Range(first[1].applied[i][1][c]) \subseteq Range(applied[i][1][c])

\* C7 witness: a file scanned at level 3 and then at level 4, where more
\* security rules were applied.
C7_Witness ==
    /\ first # <<>>
    /\ Strictness(first[1].config) = 3
    /\ Strictness(caller_config) = 4
    /\ Returned
    /\ applied[1] # <<>>
    /\ first[1].applied[1] # <<>>
    /\ Len(applied[1][1].security) > Len(first[1].applied[1][1].security)

\* The number of issues of the list that name the file and carry the text.
IssueCount(issues, filename, text) ==
    Cardinality({k \in 1..Len(issues) :
                    issues[k].file = filename /\ issues[k].issue = <<text>>})

FragmentCount(content, frag) ==
    Cardinality({k \in 1..Len(content) : content[k] = frag})

\* The issue texts of the security rules that belong to tier 1 or tier 2 only.
HigherTierTexts ==
    {RuleInfo(r).issue : r \in {"path_traversal", "insecure_random", "redos", "cors"}}

\* C8: below level 3 the tier-0 rules report every match (hardcoded secret,
\* nested loops, TODO) and no tier-1 or tier-2 rule reports anything, even
\* when its pattern is present in the content.
C8_LowStrictnessKeepsTier0Only ==
    (Returned /\ Strictness(config) < 3) =>
        \A i \in 1..Len(pr) :
            LET f == pr[i].filename
                content == ServedContent(f)
                res == returned[1]
            IN /\ IssueCount(res.security_issues, f, RuleInfo("hardcoded_secret").issue)
                    = FragmentCount(content, "secret")
               /\ IssueCount(res.performance_issues, f, RuleInfo("nested_loops").issue)
                    = FragmentCount(content, "nestedfor")
               /\ IssueCount(res.code_quality_issues, f, RuleInfo("todo").issue)
                    = FragmentCount(content, "todo")
               /\ \A t \in HigherTierTexts : IssueCount(res.security_issues, f, t) = 0

\* C8 witness: a result at level 2 for a content with a nested loop and a
\* path traversal pattern.
C8_Witness ==
    /\ Returned
    /\ Strictness(config) = 2
    /\ FragmentCount(ServedContent(pr[1].filename), "nestedfor") = 1
    /\ FragmentCount(ServedContent(pr[1].filename), "dotdot") = 1
    /\ Len(returned[1].performance_issues) = 1

\* The rules of the model that match a fragment, with the fragment.
MatchPairs ==
    { <<"hardcoded_secret", "secret">>, <<"path_traversal", "dotdot">>, <<"cors", "cors">>,
      <<"js_eval", "eval">>, <<"py_exec", "eval">>, <<"nested_loops", "nestedfor">>,
      <<"todo", "todo">>, <<"py_def", "defun">> }

\* The rule text of an issue (the last piece of a personalized text).
TextOf(issue) == issue.issue[Len(issue.issue)]

\* Number of '\n' characters of the content before fragment p, from the
\* fragment texts: one in "nl", two in "nestedfor".
NewlineCharsBefore(content, p) ==
    Cardinality({k \in 1..(p - 1) : content[k] = "nl"})
        + 2 * Cardinality({k \in 1..(p - 1) : content[k] = "nestedfor"})

\* The lines of the issues of a rule, in list order.
ReportedLines(issues, rule) ==
    LET OfRule(issue) == TextOf(issue) = RuleInfo(rule).issue
        hits == SelectSeq(issues, OfRule)
    IN [k \in 1..Len(hits) |-> hits[k].line]

\* Newline count plus one at every occurrence of the fragment, in offset order.
ExpectedLines(content, frag) ==
    LET IsFrag(p) == content[p] = frag
        positions == SelectSeq([p \in 1..Len(content) |-> p], IsFrag)
    IN [k \in 1..Len(positions) |-> NewlineCharsBefore(content, positions[k]) + 1]

\* C9: every reported issue has line >= 1, and the lines reported for a rule
\* are the newline counts before its matches plus one.
C9_LineIsNewlinesBeforeMatchPlusOne ==
    /\ \A c \in Categories : \A k \in 1..Len(IssuesOf(results, c)) :
           /\ IssuesOf(results, c)[k].line >= 1
           /\ \E mp \in MatchPairs : TextOf(IssuesOf(results, c)[k]) = RuleInfo(mp[1]).issue
    /\ (Len(pr) = 1 /\ Returned) =>
           \A c \in Categories : \A mp \in MatchPairs :
               LET lines == ReportedLines(IssuesOf(returned[1], c), mp[1])
               IN lines # <<>> => lines = ExpectedLines(ServedContent(pr[1].filename), mp[2])

\* C9 witness: a result with an issue on line 1 and, after a fragment with
\* two newline characters, an issue on line 3.
C9_Witness ==
    /\ Returned
    /\ Len(pr) = 1
    /\ \E c \in Categories : \E k \in 1..Len(IssuesOf(returned[1], c)) :
           IssuesOf(returned[1], c)[k].line = 3
    /\ \E c \in Categories : \E k \in 1..Len(IssuesOf(returned[1], c)) :
           IssuesOf(returned[1], c)[k].line = 1

(***************************************************************************)
(* Properties of failing fetches (specification Spec).                     *)
(***************************************************************************)
\* The file of the loop position is the file of the latest content fetch.
AtFetchedFile ==
    /\ fetchLog # <<>>
    /\ idx <= Len(pr_files)
    /\ pr_files[idx].filename = Last(fetchLog)

\* Position of the filename in the collaborator's list (0 if absent).
PositionOf(filename) ==
    IF \E i \in 1..Len(pr) : pr[i].filename = filename
    THEN CHOOSE i \in 1..Len(pr) : pr[i].filename = filename
    ELSE 0

\* C11: a content fetch that ends not-found does not fail the review: the
\* loop goes on with the next file, no issue is added for the file, it is not
\* scanned, and a returned result still counts it in the statistics.
C11_NotFoundIsSkippedNotFatal ==
    /\ [][(pc = "get_file_content" /\ repo'[pr_files[idx].filename] = NotFound) =>
            (pc' = "loop" /\ idx' = idx + 1 /\ results' = results)]_vars
    /\ [](\A i \in 1..Len(pr) :
            repo[pr[i].filename] = NotFound =>
                /\ ~HasIssueFor(results, pr[i].filename)
                /\ (i <= Len(applied) => applied[i] = <<>>)
                /\ Returned =>
                     /\ returned[1].statistics.files_analyzed = Len(pr)
                     /\ returned[1].statistics.lines_added = SumOver(pr, AdditionsOf)
                     /\ returned[1].statistics.lines_removed = SumOver(pr, DeletionsOf)
                     /\ ~HasIssueFor(returned[1], pr[i].filename))

\* C11 witness: a returned result for two files, the first not found, the
\* second scanned with issues.
C11_Witness ==
    /\ Returned
    /\ Len(pr) = 2
    /\ fetchLog = <<pr[1].filename, pr[2].filename>>
    /\ repo[pr[1].filename] = NotFound
    /\ HasIssueFor(returned[1], pr[2].filename)

\* C12: after a file-list, head-ref or content fetch failed with anything but
\* not-found the call has raised: no result is returned, partial or not.
C12_FetchErrorAbortsWithoutResult ==
    /\ pc = "failed" => returned = NoResult
    /\ (\E k \in 1..Len(fetchLog) : repo[fetchLog[k]] = FetchError) =>
           (pc = "failed" /\ returned = NoResult)

\* C12 witness: the content fetch of the second file failed after the first
\* file was scanned with issues.
C12_Witness ==
    /\ pc = "failed"
    /\ Len(fetchLog) = 2
    /\ repo[fetchLog[2]] = FetchError
    /\ HasIssueFor(results, fetchLog[1])
    /\ returned = NoResult

\* C13 as stated: a content fetch that failed for one file does not abort the
\* review.
C13_Original ==
    (\E k \in 1..Len(fetchLog) : repo[fetchLog[k]] = FetchError) => pc # "failed"

\* C13 amended: a content fetch that failed with anything but not-found is
\* not retried and ends the review at that file: the failed fetch is the last
\* one, each path was fetched at most once, the loop stays at the file, the
\* files after it are neither fetched nor scanned, and nothing is returned.
C13_FetchErrorEndsReviewAtThatFile ==
    \A k \in 1..Len(fetchLog) :
        repo[fetchLog[k]] = FetchError =>
            /\ k = Len(fetchLog)
            /\ \A j \in 1..Len(fetchLog) : fetchLog[j] = fetchLog[k] => j = k
            /\ idx = PositionOf(fetchLog[k])
            /\ \A i \in (idx + 1)..Len(pr) :
                   /\ ~Fetched(pr[i].filename)
                   /\ applied[i] = <<>>
                   /\ ~HasIssueFor(results, pr[i].filename)
            /\ ~Returned

\* C13 witness: the content fetch of the first of two files failed; the
\* second file, not removed and matched by no skip pattern, was left alone.
C13_Witness ==
    /\ pc = "failed"
    /\ Len(pr) = 2
    /\ fetchLog = <<pr[1].filename>>
    /\ repo[pr[1].filename] = FetchError
    /\ pr[2].status = "modified"
    /\ ~MatchesSkipPattern(pr[2].filename)


(***************************************************************************)
(* Properties of failures inside the per-file analysis and of the config.  *)
(***************************************************************************)
\* The content of the file the loop stands at was served, is not empty, and
\* the review ended with an exception at that file: the per-file analysis
\* raised.
ScanRaisedAtFile ==
    /\ pc = "failed"
    /\ AtFetchedFile
    /\ repo[Last(fetchLog)].kind = "ok"
    /\ ServedContent(Last(fetchLog)) # <<>>

\* C14: an exception raised while the rules are applied to one file's
\* content is recovered locally (the review goes on with the next files and
\* returns a result): the review never ends with an exception at a file
\* whose content was served.
C14_ScanErrorRecoveredLocally == ~ScanRaisedAtFile

\* The caller's strictness_level is not an integer in 1..5.
InvalidStrictness(cfg) ==
    \/ ~StrictnessIsNumber(cfg)
    \/ /\ "strictness_level" \in DOMAIN cfg
       /\ cfg["strictness_level"] \notin StrictnessLevels

\* C15: under a config whose strictness_level is not an integer in 1..5 no
\* rule set is applied to any file and no result is returned.
C15_InvalidStrictnessRejectedBeforeScan ==
    InvalidStrictness(caller_config) =>
        /\ ~Returned
        /\ \A i \in 1..Len(applied) : applied[i] = <<>>

\* The caller supplied a skip pattern or a custom rule pattern that is not a
\* valid regex.
HasMalformedPattern(cfg) ==
    \/ /\ "skip_patterns" \in DOMAIN cfg
       /\ \E k \in 1..Len(cfg["skip_patterns"]) : IsMalformed(cfg["skip_patterns"][k])
    \/ /\ "custom_rules" \in DOMAIN cfg
       /\ \E k \in 1..Len(cfg["custom_rules"]) : cfg["custom_rules"][k].pattern = "malformed"

\* C16: under a config with a malformed skip pattern or custom rule pattern
\* the per-file loop never gets past its first file, no content is fetched
\* and no result is returned.
C16_MalformedPatternRejectedBeforeLoop ==
    HasMalformedPattern(caller_config) =>
        /\ ~Returned
        /\ idx = 1
        /\ fetchLog = <<>>

\* The caller's rules that the claim makes part of the effective rule set of
\* a file of the given language: the custom_rules whose languages are empty
\* or contain the language and whose minStrictness is at most the strictness
\* level, and the language_rules of the language.
CallerRules(cfg, language) ==
    {cfg["custom_rules"][k] : k \in
        {j \in 1..Len(cfg["custom_rules"]) :
            /\ cfg["custom_rules"][j].languages = {}
                 \/ language \in cfg["custom_rules"][j].languages
            /\ cfg["custom_rules"][j].minStrictness <= Strictness(cfg)}}
    \cup (IF language \in DOMAIN cfg["language_rules"]
          THEN Range(cfg["language_rules"][language]) ELSE {})

\* The result has an issue of the rule for the file.
HasRuleIssue(res, rule, filename) ==
    \E k \in 1..Len(IssuesOf(res, rule.category)) :
        /\ IssuesOf(res, rule.category)[k].file = filename
        /\ IssuesOf(res, rule.category)[k].issue = <<rule.issue>>

\* C17: in a returned result, every scanned file whose content matches the
\* pattern of an applicable custom_rules or language_rules rule has an issue
\* of that rule.
C17_CallerRulesProduceIssues ==
    (Returned /\ StrictnessIsNumber(config)) =>
        \A i \in 1..Len(pr_files) :
            applied[i] # <<>> =>
                \A rule \in CallerRules(config, _detect_language(pr_files[i].filename)[1]) :
                    rule.pattern \in Range(ServedContent(pr_files[i].filename)) =>
                        HasRuleIssue(returned[1], rule, pr_files[i].filename)

\* The filename matches a built-in skip pattern.
MatchesBuiltInPattern(filename) ==
    \E k \in 1..Len(skip_patterns) : re_search(skip_patterns[k], filename)

\* The loop is past file i of the current call.
Processed(i) == pc \in {"loop", "get_pull_request", "get_file_content", "done"} /\ i < idx

\* C18: in every call, whatever custom skip patterns this call or the call
\* before it was given, a processed file that matches a built-in pattern
\* was skipped (not fetched), and a processed modified file that matches
\* neither a built-in pattern nor a custom pattern of this call was not
\* skipped (it was fetched).
C18_CustomSkipPatternsAreAdditive ==
    \A i \in 1..Len(pr_files) :
        Processed(i) =>
            /\ MatchesBuiltInPattern(pr_files[i].filename) => ~Fetched(pr_files[i].filename)
            /\ (pr_files[i].status # "removed" /\ ~MatchesSkipPattern(pr_files[i].filename))
                   => Fetched(pr_files[i].filename)

\* The second call has no custom pattern, the first had ^docs/: the second
\* call skipped dist/bundle.js and fetched docs/guide.md.
C18_Witness ==
    /\ Returned
    /\ first # <<>>
    /\ "skip_patterns" \in DOMAIN first[1].config
    /\ first[1].config["skip_patterns"] = <<DocsPattern>>
    /\ "skip_patterns" \notin DOMAIN caller_config
    /\ \E i, j \in 1..Len(pr_files) :
          /\ pr_files[i].filename = GuideMd /\ Fetched(GuideMd)
          /\ pr_files[j].filename = BundleJs /\ ~Fetched(BundleJs)

\* C19: once the config is merged, if the caller gave no focus_areas the
\* effective focus areas are the four categories.
C19_DefaultFocusAreasAreAllFour ==
    (pc # "start" /\ "focus_areas" \notin DOMAIN caller_config) =>
        Range(config["focus_areas"]) = Categories

\* C20: once the call was abandoned during its n-th content fetch, no
\* result is returned and no fetch after the n-th is made.
C20_CancelledReviewReturnsNothing ==
    cancel_at # <<>> =>
        /\ ~Returned
        /\ Len(fetchLog) <= cancel_at[1]


(***************************************************************************)
(* Properties of the order of the result and of what it shows.             *)
(***************************************************************************)
\* The issues of the list are in the order of their files in the input list.
InFileOrder(issues) ==
    \A k, l \in 1..Len(issues) :
        k < l => PositionOf(issues[k].file) <= PositionOf(issues[l].file)

\* C21: in every category list, while it is built and when it is returned,
\* the issues of an earlier input file precede those of a later one; the
\* contents are fetched in input order; a result is returned only once the
\* loop is past the last file.
C21_IssuesInInputFileOrder ==
    /\ \A c \in Categories : InFileOrder(IssuesOf(results, c))
    /\ \A k, l \in 1..Len(fetchLog) :
          k < l => PositionOf(fetchLog[k]) < PositionOf(fetchLog[l])
    /\ Returned =>
          /\ idx = Len(pr_files) + 1
          /\ \A c \in Categories : InFileOrder(IssuesOf(returned[1], c))

\* A returned result with security issues of two files.
C21_Witness ==
    /\ Returned
    /\ Len(pr) = 2
    /\ \E k, l \in 1..Len(returned[1].security_issues) :
          /\ returned[1].security_issues[k].file = pr[1].filename
          /\ returned[1].security_issues[l].file = pr[2].filename


\* The issues of the category list that belong to the file, in list order.
IssuesOfFile(res, c, filename) ==
    SelectSeq(IssuesOf(res, c), LAMBDA issue : issue.file = filename)

\* File i was skipped in the call whose per-file record is skippedIn and
\* was scanned without any issue in the call that returned res; the other
\* files have the same issues in res and in other.
SkippedThenScannedClean(i, skippedIn, scannedIn, res, other) ==
    /\ skippedIn[i] = <<>>
    /\ scannedIn[i] # <<>>
    /\ ~HasIssueFor(res, pr_files[i].filename)
    /\ \A j \in 1..Len(pr_files) : \A c \in Categories :
          j # i => IssuesOfFile(res, c, pr_files[j].filename)
                     = IssuesOfFile(other, c, pr_files[j].filename)

\* C22: of two results returned for the same file list, one by a call that
\* skipped a file and one by a call that scanned that file and found no
\* issue in it (the other files being treated alike), the two differ.
C22_SkipsAreDistinguishable ==
    (Returned /\ first # <<>>) =>
        \A i \in 1..Len(pr_files) :
            \/ SkippedThenScannedClean(i, first[1].applied, applied,
                                       returned[1], first[1].returned[1])
            \/ SkippedThenScannedClean(i, applied, first[1].applied,
                                       first[1].returned[1], returned[1])
            => returned[1] # first[1].returned[1]

\* C27: within one call of review_code every content is read at the same
\* commit of the head ref, also when the head moves during the call.
C27_AllFetchesAtSameHead ==
    \A k, l \in 1..Len(refLog) : refLog[k] = refLog[l]


(***************************************************************************)
(* Properties of the matches and of the captured groups (SpecGroups).      *)
(***************************************************************************)
\* Number of matches of the rule in the content.
MatchCount(rule, content) ==
    Cardinality({p \in 1..Len(content) : Matches(rule, content[p])})

RECURSIVE TotalMatches(_, _, _)
\* Number of matches in the content, summed over the rules from the k-th on.
TotalMatches(rules, content, k) ==
    IF k > Len(rules) THEN 0
    ELSE MatchCount(rules[k], content) + TotalMatches(rules, content, k + 1)

\* The rules the analyzer of the category applied to the scanned file i.
AppliedRules(i, c) ==
    CASE c = "security" -> applied[i][1].security
      [] c = "performance" -> applied[i][1].performance
      [] c = "code_quality" -> applied[i][1].code_quality
      [] c = "test_coverage" -> applied[i][1].test_coverage

\* C25: for a scanned file, every category list has as many issues as its
\* active rules have matches in the content, and two different active rules
\* that match the same piece of text have one issue each on its line.
C25_EveryMatchYieldsAnIssue ==
    (Returned /\ Len(pr) = 1 /\ applied[1] # <<>>) =>
        LET content == ServedContent(pr[1].filename)
        IN \A c \in Categories :
             /\ Len(IssuesOf(returned[1], c)) = TotalMatches(AppliedRules(1, c), content, 1)
             /\ \A p \in 1..Len(content) : \A r1, r2 \in Range(AppliedRules(1, c)) :
                   (r1 # r2 /\ Matches(r1, content[p]) /\ Matches(r2, content[p])) =>
                       \E k, l \in 1..Len(IssuesOf(returned[1], c)) :
                           /\ k # l
                           /\ IssuesOf(returned[1], c)[k].line = LineNumber(content, p)
                           /\ IssuesOf(returned[1], c)[l].line = LineNumber(content, p)
                           /\ TextOf(IssuesOf(returned[1], c)[k]) = RuleInfo(r1).issue
                           /\ TextOf(IssuesOf(returned[1], c)[l]) = RuleInfo(r2).issue

\* A Python file in which exec(sql + x) occurs twice: four security issues,
\* two of each of the two rules that match it.
C25_Witness ==
    /\ Returned
    /\ pr[1].filename = AppPy
    /\ ServedContent(AppPy) = <<"execsql", "execsql">>
    /\ Len(returned[1].security_issues) = 4


\* The group is one of the keywords class, function, const, let, var,
\* default (a keyword group of the patterns may carry the blank after it).
IsKeyword(group) ==
    group \in {"class", "function", "const", "let", "var", "default", "const "}

RECURSIVE FirstNonKeyword(_, _)
\* The first group that took part in the match and is not a keyword; <<>>
\* if there is none.
FirstNonKeyword(groups, k) ==
    IF k > Len(groups) THEN <<>>
    ELSE IF groups[k] # "" /\ ~IsKeyword(groups[k]) THEN <<groups[k]>>
    ELSE FirstNonKeyword(groups, k + 1)

\* C26: every match of a test-coverage rule has an issue whose texts are
\* personalized with the first captured group that is not a keyword, also
\* when that group contains a keyword as a substring, and are the generic
\* texts only when there is no such group.
C26_FirstNonKeywordGroupPersonalizes ==
    (Returned /\ Len(pr) = 1 /\ applied[1] # <<>>) =>
        LET content == ServedContent(pr[1].filename)
        IN \A p \in 1..Len(content) : \A rule \in Range(AppliedRules(1, "test_coverage")) :
              Matches(rule, content[p]) =>
                  LET identifier == FirstNonKeyword(MatchGroups(rule, content[p]), 1)
                  IN \E k \in 1..Len(returned[1].test_coverage_issues) :
                        LET issue == returned[1].test_coverage_issues[k]
                        IN /\ issue.line = LineNumber(content, p)
                           /\ issue.issue =
                                 IF identifier # <<>>
                                 THEN <<identifier[1], ": ", RuleInfo(rule).issue>>
                                 ELSE <<RuleInfo(rule).issue>>
                           /\ issue.recommendation =
                                 IF identifier # <<>>
                                 THEN <<RuleInfo(rule).recommendation, " for ", identifier[1]>>
                                 ELSE <<RuleInfo(rule).recommendation>>


(***************************************************************************)
(* Properties of the effective configuration (SpecConfig).                 *)
(***************************************************************************)
\* C23: no step of a review changes the caller's config dict (it changes
\* only when the caller makes the next call); in every call, whatever the
\* calls before it were given, the effective config has the caller's value
\* for each key the caller gave and the documented default for every other
\* key, strictness 3 when the caller gave no strictness.
C23_MergeOverridesWithoutMutation ==
    /\ [][pc' # "start" => caller_config' = caller_config]_vars
    /\ [](pc # "start" =>
            /\ DOMAIN config = (DOMAIN _get_default_config) \cup (DOMAIN caller_config)
            /\ \A key \in DOMAIN config :
                  config[key] = IF key \in DOMAIN caller_config
                                THEN caller_config[key]
                                ELSE _get_default_config[key]
            /\ ("strictness_level" \notin DOMAIN caller_config /\ StrictnessIsNumber(caller_config))
                  => Strictness(config) = 3)

\* The second call gives no config after a first call that gave strictness
\* 7 and returned: the second call ran at strictness 3.
C23_Witness ==
    /\ first # <<>>
    /\ first[1].config = [strictness_level |-> 7]
    /\ caller_config = EmptyDict
    /\ pc = "done"
    /\ Returned
    /\ Strictness(config) = 3


(***************************************************************************)
(* Properties of the classification (SpecDetect).                          *)
(***************************************************************************)
\* The whole filename is a key of the extensions dict: Dockerfile, or a dot
\* followed by a known extension, outside any directory.
WholeNameIsKey(filename) ==
    /\ filename.dir = <<>>
    /\ \/ filename.parts = <<"Dockerfile">>
       \/ /\ Len(filename.parts) = 2
          /\ filename.parts[1] = ""
          /\ filename.parts[2] \in DOMAIN extensions

\* The filename has an extension (its last dot is not a leading dot of the
\* basename) and the extension is a key of the extensions dict.
ExtensionIsKey(filename) ==
    /\ Len(filename.parts) >= 2
    /\ \E k \in 1..(Len(filename.parts) - 1) : filename.parts[k] # ""
    /\ Last(filename.parts) \in DOMAIN extensions

\* C24: _detect_language returns a pair for every filename: the entry of the
\* whole filename if the whole filename is a key, else the entry of the
\* extension if it is a key, else ("unknown", "unknown"); the pair depends
\* on the filename only.
C24_DetectLanguageIsTotal ==
    classification # <<>> =>
        /\ Len(classification[1]) = 2
        /\ classification[1] = _detect_language(filename_arg)
        /\ WholeNameIsKey(filename_arg) =>
              classification[1] =
                  IF filename_arg.parts = <<"Dockerfile">> THEN <<"dockerfile", "config">>
                  ELSE extensions[filename_arg.parts[2]]
        /\ (~WholeNameIsKey(filename_arg) /\ ExtensionIsKey(filename_arg)) =>
              classification[1] = extensions[Last(filename_arg.parts)]
        /\ (~WholeNameIsKey(filename_arg) /\ ~ExtensionIsKey(filename_arg)) =>
              classification[1] = <<"unknown", "unknown">>

\* Dockerfile inside a directory was classified: unknown.
C24_Witness ==
    /\ classification = << <<"unknown", "unknown">> >>
    /\ filename_arg = FN(<<"src">>, <<"Dockerfile">>)


(***************************************************************************)
(* Properties of the middleware (SpecAuth, SpecRate).                      *)
(***************************************************************************)
\* The path is neither the root path nor under a documentation or health
\* path.
IsProtected(path) ==
    /\ path # <<"/">>
    /\ \A k \in 1..Len(exclude_paths) :
          exclude_paths[k] # <<"/">> => ~startswith(path, exclude_paths[k])

\* The header carries a Bearer token that jwt.decode accepts.
HasValidBearer(header) ==
    /\ header # NoHeader
    /\ header[1] = "Bearer "
    /\ header[2] = "valid"

\* C28: a request to a protected path without a valid Bearer token is
\* answered with 401 and does not reach the route handler.
C28_ProtectedPathsNeedValidToken ==
    (exchange # <<>> /\ IsProtected(exchange[1].path) /\ ~HasValidBearer(exchange[1].header)) =>
        /\ exchange[1].status = 401
        /\ ~exchange[1].handled

\* Number of the client's forwarded requests with a timestamp in [from, to].
ForwardedWithin(client, from, to) ==
    Cardinality({k \in 1..Len(forwarded[client]) :
                    from <= forwarded[client][k] /\ forwarded[client][k] <= to})

\* The client would be answered 429 at the time, given the records.
WouldBeLimited(records, client, time) == _is_rate_limited(records, client, time).limited

\* C29: in every interval of length window_seconds a client has at most
\* max_requests forwarded requests; a request of one client changes neither
\* the forwarded requests of another client nor, now or at any later time,
\* whether a request of that other client would be admitted.
C29_AtMostMaxRequestsPerWindow ==
    /\ [](\A client \in Clients : \A from \in 0..MaxTime :
             ForwardedWithin(client, from, from + window_seconds) <= max_requests)
    /\ [][exchange' # exchange =>
             \A other \in Clients \ {exchange'[1].client} :
                 /\ forwarded'[other] = forwarded[other]
                 /\ \A time \in current_time..MaxTime :
                       WouldBeLimited(request_records', other, time)
                           = WouldBeLimited(request_records, other, time)]_vars

\* Three requests of one client were made in one window: two were
\* forwarded, the third was answered 429, and the other client had a
\* request forwarded in that window too.
C29_Witness ==
    /\ exchange # <<>>
    /\ exchange[1].status = 429
    /\ exchange[1].client = "10.0.0.1"
    /\ Len(forwarded["10.0.0.1"]) = max_requests
    /\ forwarded["10.0.0.2"] # <<>>
    /\ \A k \in 1..Len(forwarded["10.0.0.1"]) :
          current_time - forwarded["10.0.0.1"][k] <= window_seconds

\* Number of the client's forwarded requests that are at most
\* window_seconds old.
RecentForwarded(client) ==
    ForwardedWithin(client, current_time - window_seconds, current_time)

\* C30: a request answered 429 adds no record and no forwarded request, the
\* records of a client are timestamps of its forwarded requests only, and
\* a request is answered 429 exactly when max_requests forwarded requests
\* of its client are at most window_seconds old, whatever was rejected in
\* between.
C30_RejectedRequestsAreNotRecorded ==
    /\ [](\A client \in Clients :
             Range(Records(request_records, client)) \subseteq Range(forwarded[client]))
    /\ [][exchange' # exchange =>
             LET client == exchange'[1].client
             IN /\ exchange'[1].status = 429 <=> RecentForwarded(client) >= max_requests
                /\ exchange'[1].status = 429 =>
                      /\ forwarded' = forwarded
                      /\ Len(Records(request_records', client))
                            <= Len(Records(request_records, client))]_vars

\* A client was answered 429 twice and then, the window having passed, had
\* a request forwarded again.
C30_Witness ==
    /\ exchange # <<>>
    /\ exchange[1].status = 200
    /\ exchange[1].rejections >= 2
    /\ Len(forwarded[exchange[1].client]) = max_requests + 1
    /\ forwarded[CHOOSE c \in Clients : c # exchange[1].client] = <<>>

====
